---- MODULE Spec2Model ----
(***************************************************************************)
(* A model of the Injective trading bot: the order pricing of placeOrder,   *)
(* the market list kept in SpotMarket.json, and the two price alert loops   *)
(* (checkMarketAlerts of Telegram.ts, MarketMonitor of models.ts).          *)
(*                                                                          *)
(* Prices and tick sizes are exact decimals, written as integers in units   *)
(* of 0.0001 (the resolution of toFixed(4)).  A price with the 2% buffer    *)
(* applied is kept as a numerator over 100 of that unit, so that the        *)
(* multiplication by 1.02 / 0.98 and the division by the tick size are      *)
(* exact.  JavaScript's binary floating point is not modelled.              *)
(***************************************************************************)
EXTENDS Integers, Sequences, FiniteSets, TLC

(***************************************************************************)
(* Bounds of the exploration.                                               *)
(***************************************************************************)
\* the longest order book side the indexer returns
MaxLevels == 2
\* the alerts created, by createMarketAlert and addPriceAlert together
MaxAlerts == 2
\* the alert evaluations in progress at once: runs of checkMarketAlerts and
\* chains of monitorPriceAlerts runs together
MaxRuns == 2
\* the sendMessage calls counted for one price alert of MarketMonitor
MaxSends == 2

(***************************************************************************)
(* Values.                                                                  *)
(***************************************************************************)
\* JavaScript's null (bestBidPrice: number | null)
Null == -1

Tickers == {"INJ/USDT", "X/Y"}

\* minPriceTickSize of a market of the list
PriceTicks == {1, 5}

\* the decimals of the base and of the quote token of the markets
BaseDecimals == 2
QuoteDecimals == 6

\* a market of the list (the fields of SpotMarket.json the code reads)
MarketWith(t, priceTick, quantityTick) ==
    [ticker |-> t, marketId |-> t, minPriceTickSize |-> priceTick,
     minQuantityTickSize |-> quantityTick]

\* a market whose quantity tick is one unit
Market(t, tick) == MarketWith(t, tick, 1)

\* the quantity of an order, in units of 0.0001 of the base token: a multiple
\* of the quantity tick 1 and not of the quantity tick 5
Quantities == {3}

\* JavaScript's NaN
NaN == -1000000

\* what fetchMarketSummary returns as the last price
LastPrices == {0, 3, 50}

\* one level of an order book side: {price, quantity}
LevelPrices == {0, 3, 50}
LevelQuantities == {1, 3}
Levels == [price : LevelPrices, quantity : LevelQuantities]

\* the sides fetchOrderbookV2 may return; the code neither sorts nor checks them
BookSides == UNION {[1..n -> Levels] : n \in 0..MaxLevels}

\* the order sides: orderType 1 is a buy, 2 is a sell
OrderSides == {1, 2}

VARIABLES
    spotMarkets,    \* the market list imported from SpotMarket.json at load time
    order,          \* one placeOrder call: its position and its locals
    file,           \* the content of SpotMarket.json on disk, as JSON tokens
    refresh,        \* the getSpotMarketData call of each caller
    lastRead,       \* what the latest readFile + JSON.parse of the file gave
    lastRefreshed,  \* the list the latest completed getSpotMarketData returned
    written,        \* every list that was, or is being, written to the file
    marketUpdateInterval,  \* MarketMonitor's 5-minute timer is armed
    running,        \* the process has not exited
    marketAlerts,   \* Telegram.ts: the Map userId -> alerts, in insertion order
    ticks,          \* the runs of checkMarketAlerts the 60-second timer started
    sent,           \* per alert, the sendMessage calls made for it
    priceAlerts,    \* MarketMonitor: the array this.priceAlerts
    monitoring,     \* MarketMonitor: the flag this.monitoring
    bot,            \* MarketMonitor: setBot has given it the bot
    loops,          \* MarketMonitor: the chains of monitorPriceAlerts runs
    added,          \* the number of addPriceAlert calls so far
    priceSent,      \* per price alert, the sendMessage calls made for it
    levels,         \* getMarketDetails: one side of the order book it fetched
    average,        \* getMarketDetails: the average price it returns for it
    userSettings,   \* the UserSettings document of the user: wallets, default
    keyboards,      \* the messages of the chat that carry a callback button
    placed,         \* the placeOrder calls handleOrderConfirmation made
    removed         \* the wallets finalizeWalletDeletion spliced out

orderVars == <<order>>
cacheVars == <<file, refresh, lastRead, lastRefreshed, written,
               marketUpdateInterval, running>>
alertVars == <<marketAlerts, ticks, sent>>
monitorVars == <<priceAlerts, monitoring, bot, loops, added, priceSent>>
averageVars == <<levels, average>>
walletVars == <<userSettings, keyboards, placed, removed>>
vars == <<spotMarkets, order, file, refresh, lastRead, lastRefreshed, written,
          marketUpdateInterval, running, marketAlerts, ticks, sent,
          priceAlerts, monitoring, bot, loops, added, priceSent,
          levels, average, userSettings, keyboards, placed, removed>>

(***************************************************************************)
(* Arithmetic helpers.                                                      *)
(***************************************************************************)
\* Math.floor(a / b) for b > 0 (a mutant of CeilDiv)
FloorDiv(a, b) == a \div b

\* Math.ceil(a / b) for b > 0
CeilDiv(a, b) == -((-a) \div b)

RECURSIVE SumOver(_, _)
\* the sum of f[i] for i in 1..Len(f)
SumOver(f, n) == IF n = 0 THEN 0 ELSE f[n] + SumOver(f, n - 1)

\* Array.prototype.slice(0, n)
Slice(s, n) == IF Len(s) <= n THEN s ELSE SubSeq(s, 1, n)

\* parseFloat((w / v).toFixed(4)): w / v rounded to the nearest unit, half up
ToFixed4(w, v) == (2 * w + v) \div (2 * v)

\* the truthiness test `if (x)` of a number | null
Truthy(x) == x # Null /\ x # 0

(***************************************************************************)
(* getMarketDetails (injective.ts).                                         *)
(***************************************************************************)
maxOrdersToConsider == 5

\* find's undefined: no market of the list has the ticker
NoMarket ==
    [ticker |-> "", marketId |-> "", minPriceTickSize |-> 0,
     minQuantityTickSize |-> 0]

\* spotMarkets.find(market => market.ticker === ticker)
FindMarket(markets, ticker) ==
    LET hits == {i \in 1..Len(markets) : markets[i].ticker = ticker}
    IN  IF hits = {} THEN NoMarket
        ELSE markets[CHOOSE i \in hits : \A j \in hits : i <= j]

\* orderBook.buys.length > 0 ? parseFloat(orderBook.buys[0].price) : null
BestPrice(side) == IF Len(side) > 0 THEN side[1].price ELSE Null

\* the quantity-weighted mean price of the top levels, or null
AveragePrice(side) ==
    LET top == Slice(side, maxOrdersToConsider)
        totalVolume == SumOver([i \in 1..Len(top) |-> top[i].quantity], Len(top))
        weighted == SumOver([i \in 1..Len(top) |-> top[i].price * top[i].quantity],
                            Len(top))
    IN  IF totalVolume > 0 THEN ToFixed4(weighted, totalVolume) ELSE Null

\* the MarketDetails record getMarketDetails returns
MarketDetailsOf(market, price, buys, sells) ==
    [marketId |-> market.marketId,
     minPriceTickSize |-> market.minPriceTickSize,
     minQuantityTickSize |-> market.minQuantityTickSize,
     price |-> price,
     bestBidPrice |-> BestPrice(buys),
     bestAskPrice |-> BestPrice(sells),
     averageBuyPrice |-> AveragePrice(buys),
     averageSellPrice |-> AveragePrice(sells)]

NoDetails ==
    [marketId |-> "", minPriceTickSize |-> 1, minQuantityTickSize |-> 1,
     price |-> 0,
     bestBidPrice |-> Null, bestAskPrice |-> Null,
     averageBuyPrice |-> Null, averageSellPrice |-> Null]

(***************************************************************************)
(* placeOrder (placeSpotOrder.ts): the worst price of a market order.       *)
(***************************************************************************)
\* priceBuffer = 0.02, in percent
priceBufferPct == 2

\* a mutant: the average is preferred to the best ask
BuyBufferedAverageFirst(md) ==
    IF Truthy(md.averageSellPrice) THEN md.averageSellPrice * (100 + priceBufferPct)
    ELSE IF Truthy(md.bestAskPrice) THEN md.bestAskPrice * (100 + priceBufferPct)
    ELSE md.price * (100 + priceBufferPct)

\* the buy branch: worstPrice before rounding, times 100
BuyBuffered(md) ==
    IF Truthy(md.bestAskPrice) THEN md.bestAskPrice * (100 + priceBufferPct)
    ELSE IF Truthy(md.averageSellPrice)
         THEN md.averageSellPrice * (100 + priceBufferPct)
    ELSE md.price * (100 + priceBufferPct)

\* a mutant: the buffer of the buy branch is applied to a sell
SellBufferedFlipped(md) ==
    IF Truthy(md.bestBidPrice) THEN md.bestBidPrice * (100 + priceBufferPct)
    ELSE IF Truthy(md.averageBuyPrice)
         THEN md.averageBuyPrice * (100 + priceBufferPct)
    ELSE md.price * (100 - priceBufferPct)

\* the sell branch: worstPrice before rounding, times 100
SellBuffered(md) ==
    IF Truthy(md.bestBidPrice) THEN md.bestBidPrice * (100 - priceBufferPct)
    ELSE IF Truthy(md.averageBuyPrice)
         THEN md.averageBuyPrice * (100 - priceBufferPct)
    ELSE md.price * (100 - priceBufferPct)

\* worstPrice before rounding, times 100
BufferedPrice(buyOrSell, md) ==
    IF buyOrSell = 1 THEN BuyBuffered(md) ELSE SellBuffered(md)

\* a mutant: Math.floor in place of Math.ceil
RoundToTickFloor(buffered, tick) == FloorDiv(buffered, 100 * tick) * tick

\* Math.ceil(worstPrice / minPriceTickSize) * minPriceTickSize.  A division by
\* zero gives Infinity or NaN and the product with zero NaN; with a negative
\* tick the quotient is negative, and its ceiling times the tick is the
\* multiple of the tick's magnitude at or below the price
RoundToTick(buffered, tick) ==
    IF tick > 0 THEN CeilDiv(buffered, 100 * tick) * tick
    ELSE IF tick = 0 THEN NaN
    ELSE FloorDiv(buffered, 100 * (-tick)) * (-tick)

\* a decimal number m x 10^e, as the SDK renders it with toFixed()
Decimal(m, e) == [m |-> m, e |-> e]

\* spotPriceToChainPriceToFixed: the price, here in units of 10^-4, times
\* 10^(quoteDecimals - baseDecimals); NaN stays NaN
SpotPriceToChain(value, baseDecimals, quoteDecimals) ==
    IF value = NaN THEN Decimal(NaN, 0)
    ELSE Decimal(value, quoteDecimals - baseDecimals - 4)

\* spotQuantityToChainQuantityToFixed: the quantity, here in units of 10^-4,
\* times 10^baseDecimals.  The tens multiplier passed with it is that of the
\* quantity tick, 10^-4 for each tick below 0.001; every quantity here is a
\* multiple of it
SpotQuantityToChain(value, baseDecimals) == Decimal(value, baseDecimals - 4)

\* a chain value divided back by its scaling factor 10^shift, in units of 10^-4
FromChain(d, shift) == IF d.e - shift = -4 THEN d.m ELSE NaN

\* broadcasts counts the calls of broadcaster.broadcast, txHash is what
\* placeOrder returned, error what it threw
IdleOrder ==
    [pc |-> "idle", buyOrSell |-> 1, quantity |-> 0, ticker |-> "",
     market |-> NoMarket, price |-> 0, marketDetails |-> NoDetails,
     buffered |-> 0, worstPrice |-> 0, chainPrice |-> Decimal(0, 0),
     chainQuantity |-> Decimal(0, 0), broadcasts |-> 0, txHash |-> "",
     error |-> ""]

\* a mutant: the market summary is fetched before the ticker is looked up
PlaceOrderCallFetchingFirst ==
    /\ order.pc = "idle"
    /\ \E side \in OrderSides, q \in Quantities, t \in Tickers :
         order' = [order EXCEPT !.pc = "awaitSummary", !.buyOrSell = side,
                                !.quantity = q, !.ticker = t,
                                !.market = FindMarket(spotMarkets, t)]
    /\ UNCHANGED <<spotMarkets, cacheVars, alertVars, monitorVars, averageVars,
                   walletVars>>

\* placeOrder is called: getMarketDetails looks the ticker up and throws when it
\* is missing, else it awaits fetchMarketSummary
PlaceOrderCall ==
    /\ order.pc = "idle"
    /\ \E side \in OrderSides, q \in Quantities, t \in Tickers :
         LET m == FindMarket(spotMarkets, t) IN
         order' = IF m = NoMarket
                  THEN [order EXCEPT !.pc = "rejected", !.buyOrSell = side,
                                     !.quantity = q, !.ticker = t,
                                     !.error = "MarketNotFound"]
                  ELSE [order EXCEPT !.pc = "awaitSummary", !.buyOrSell = side,
                                     !.quantity = q, !.ticker = t, !.market = m]
    /\ UNCHANGED <<spotMarkets, cacheVars, alertVars, monitorVars, averageVars,
                   walletVars>>

\* fetchMarketSummary resolves; getMarketDetails awaits fetchOrderbookV2
OrderSummaryResolves ==
    /\ order.pc = "awaitSummary"
    /\ \E p \in LastPrices :
         order' = [order EXCEPT !.pc = "awaitOrderbook", !.price = p]
    /\ UNCHANGED <<spotMarkets, cacheVars, alertVars, monitorVars, averageVars,
                   walletVars>>

\* fetchMarketSummary or fetchOrderbookV2 rejects: getMarketDetails rethrows and
\* placeOrder, which awaits it outside its try block, rejects
OrderFetchRejects ==
    /\ order.pc \in {"awaitSummary", "awaitOrderbook"}
    /\ order' = [order EXCEPT !.pc = "rejected", !.error = "UpstreamUnavailable"]
    /\ UNCHANGED <<spotMarkets, cacheVars, alertVars, monitorVars, averageVars,
                   walletVars>>

\* a mutant: the order is broadcast although building its message threw
OrderBuildThrowsBroadcasting ==
    /\ order.pc = "awaitOrderbook"
    /\ order' = [order EXCEPT !.pc = "awaitBroadcast", !.broadcasts = @ + 1]
    /\ UNCHANGED <<spotMarkets, cacheVars, alertVars, monitorVars, averageVars,
                   walletVars>>

\* fetchOrderbookV2 resolves and getMarketDetails returns, but a call inside
\* placeOrder's try block throws before the broadcast (getEthereumAddress for a
\* malformed wallet address, one of the SDK's conversions): the catch block
\* logs and rethrows
OrderBuildThrows ==
    /\ order.pc = "awaitOrderbook"
    /\ order' = [order EXCEPT !.pc = "rejected", !.error = "BuildFailed"]
    /\ UNCHANGED <<spotMarkets, cacheVars, alertVars, monitorVars, averageVars,
                   walletVars>>

\* fetchOrderbookV2 resolves: getMarketDetails returns and placeOrder computes the
\* worst price, rounds it, builds the message (the price and the quantity
\* converted to chain values) and calls broadcaster.broadcast, which it awaits
OrderbookResolves ==
    /\ order.pc = "awaitOrderbook"
    /\ \E buys \in BookSides, sells \in BookSides :
         LET md == MarketDetailsOf(order.market, order.price, buys, sells)
             buffered == BufferedPrice(order.buyOrSell, md)
             worstPrice == RoundToTick(buffered, md.minPriceTickSize)
         IN  order' = [order EXCEPT
                          !.pc = "awaitBroadcast",
                          !.marketDetails = md,
                          !.buffered = buffered,
                          !.worstPrice = worstPrice,
                          !.chainPrice =
                              SpotPriceToChain(worstPrice, BaseDecimals,
                                               QuoteDecimals),
                          !.chainQuantity =
                              SpotQuantityToChain(order.quantity, BaseDecimals),
                          !.broadcasts = @ + 1]
    /\ UNCHANGED <<spotMarkets, cacheVars, alertVars, monitorVars, averageVars,
                   walletVars>>

\* broadcaster.broadcast resolves with the transaction hash
BroadcastResolves ==
    /\ order.pc = "awaitBroadcast"
    /\ order' = [order EXCEPT !.pc = "done", !.txHash = "hash"]
    /\ UNCHANGED <<spotMarkets, cacheVars, alertVars, monitorVars, averageVars,
                   walletVars>>

\* a mutant: the catch block calls broadcaster.broadcast once more
BroadcastRejectsRetrying ==
    /\ order.pc = "awaitBroadcast"
    /\ order.broadcasts < 2
    /\ order' = [order EXCEPT !.broadcasts = @ + 1]
    /\ UNCHANGED <<spotMarkets, cacheVars, alertVars, monitorVars, averageVars,
                   walletVars>>

\* a mutant: the catch block swallows the error and placeOrder returns nothing
BroadcastRejectsSwallowing ==
    /\ order.pc = "awaitBroadcast"
    /\ order' = [order EXCEPT !.pc = "done"]
    /\ UNCHANGED <<spotMarkets, cacheVars, alertVars, monitorVars, averageVars,
                   walletVars>>

\* broadcaster.broadcast rejects: the catch block logs and rethrows
BroadcastRejects ==
    /\ order.pc = "awaitBroadcast"
    /\ order' = [order EXCEPT !.pc = "rejected", !.error = "BroadcastFailed"]
    /\ UNCHANGED <<spotMarkets, cacheVars, alertVars, monitorVars, averageVars,
                   walletVars>>

(***************************************************************************)
(* SpotMarket.json: getSpotMarketData (placeSpotOrder.ts) writes it, the    *)
(* all_markets callback and handleMarketSearch (Telegram.ts) read it.       *)
(***************************************************************************)
\* the tokens of one write call of fs.promises.writeFile
ChunkTokens == 2

Token(kind, m) == [kind |-> kind, market |-> m]

RECURSIVE MarketTokens(_)
MarketTokens(markets) ==
    IF markets = <<>> THEN <<>>
    ELSE <<Token("market", Head(markets))>> \o MarketTokens(Tail(markets))

\* JSON.stringify(markets, null, 2)
Stringify(markets) ==
    <<Token("[", NoMarket)>> \o MarketTokens(markets) \o <<Token("]", NoMarket)>>

\* whether JSON.parse(data) returns (it throws a SyntaxError on anything but a
\* complete document)
Parses(data) ==
    /\ Len(data) >= 2
    /\ data[1].kind = "["
    /\ data[Len(data)].kind = "]"
    /\ \A i \in 2..(Len(data) - 1) : data[i].kind = "market"

\* JSON.parse(data), for data that parses
Parse(data) == [i \in 1..(Len(data) - 2) |-> data[i + 1].market]

\* write(fd, chunk) at the descriptor's own position pos: the bytes there are
\* overwritten, the file grows as needed, and a gap reads as zero bytes
WriteAt(content, pos, chunk) ==
    LET end == pos + Len(chunk)
        n == IF Len(content) > end THEN Len(content) ELSE end
    IN  [i \in 1..n |->
            IF i > pos /\ i <= end THEN chunk[i - pos]
            ELSE IF i <= Len(content) THEN content[i]
            ELSE Token("nul", NoMarket)]

\* the lists fetchMarkets may return
CacheLists ==
    {<<Market("INJ/USDT", 1)>>,
     <<Market("INJ/USDT", 1), Market("X/Y", 1)>>}

\* the callers of getSpotMarketData: the callback of MarketMonitor's 5-minute
\* timer, and handleMarketSearch
Callers == {"interval", "search"}

\* outcome: how the caller's latest call ended
RefreshEnded(outcome) ==
    [pc |-> "idle", markets |-> <<>>, pos |-> 0, outcome |-> outcome]
IdleRefresh == RefreshEnded("none")
NoRead == [by |-> "none", ok |-> TRUE, markets |-> <<>>]

\* getSpotMarketData is called: by the timer's callback while the timer is armed,
\* or by handleMarketSearch for a search term; it awaits fetchMarkets
RefreshCall(c) ==
    /\ running
    /\ refresh[c].pc = "idle"
    /\ c = "interval" => marketUpdateInterval
    /\ refresh' = [refresh EXCEPT ![c].pc = "fetching"]
    /\ UNCHANGED <<spotMarkets, orderVars, averageVars, walletVars, alertVars, monitorVars,
                   file, lastRead, lastRefreshed, written,
                   marketUpdateInterval, running>>

\* fetchMarkets resolves: the list is stringified and writeFile is awaited
FetchResolves(c) ==
    /\ running
    /\ refresh[c].pc = "fetching"
    /\ \E markets \in CacheLists :
         /\ refresh' = [refresh EXCEPT ![c] =
                            [@ EXCEPT !.pc = "opening", !.markets = markets]]
         /\ written' = written \cup {markets}
    /\ UNCHANGED <<spotMarkets, orderVars, averageVars, walletVars, alertVars, monitorVars,
                   file, lastRead, lastRefreshed,
                   marketUpdateInterval, running>>

\* a mutant: the failed refresh empties the file
FetchRejectsClearing(c) ==
    /\ running
    /\ refresh[c].pc = "fetching"
    /\ refresh' = [refresh EXCEPT ![c] = RefreshEnded("failed")]
    /\ file' = <<>>
    /\ UNCHANGED <<spotMarkets, orderVars, averageVars, walletVars, alertVars, monitorVars,
                   lastRead, lastRefreshed, written,
                   marketUpdateInterval, running>>

\* fetchMarkets rejects: getSpotMarketData logs and rethrows before it writes
\* anything, and the caller's catch block logs (the timer's callback) or replies
\* with an error (handleMarketSearch)
FetchRejects(c) ==
    /\ running
    /\ refresh[c].pc = "fetching"
    /\ refresh' = [refresh EXCEPT ![c] = RefreshEnded("failed")]
    /\ UNCHANGED <<spotMarkets, orderVars, averageVars, walletVars, alertVars, monitorVars,
                   file, lastRead, lastRefreshed, written,
                   marketUpdateInterval, running>>

\* writeFile opens the file with flag 'w', which truncates it
WriteOpen(c) ==
    /\ running
    /\ refresh[c].pc = "opening"
    /\ file' = <<>>
    /\ refresh' = [refresh EXCEPT ![c].pc = "writing"]
    /\ UNCHANGED <<spotMarkets, orderVars, averageVars, walletVars, alertVars, monitorVars,
                   lastRead, lastRefreshed, written,
                   marketUpdateInterval, running>>

\* writeFile writes its next chunk; after the last one getSpotMarketData returns
\* the list: the timer's callback logs it, handleMarketSearch goes on to read
\* the file
WriteChunk(c) ==
    /\ running
    /\ refresh[c].pc = "writing"
    /\ LET data == Stringify(refresh[c].markets)
           pos == refresh[c].pos
           n == IF Len(data) - pos > ChunkTokens THEN ChunkTokens
                ELSE Len(data) - pos
           last == pos + n = Len(data)
       IN  /\ file' = WriteAt(file, pos, SubSeq(data, pos + 1, pos + n))
           /\ refresh' = [refresh EXCEPT ![c] =
                   IF ~last THEN [@ EXCEPT !.pos = pos + n]
                   ELSE IF c = "search" THEN [@ EXCEPT !.pc = "reading", !.pos = 0]
                   ELSE RefreshEnded("ok")]
           /\ lastRefreshed' = IF last
                               THEN [valid |-> TRUE, markets |-> refresh[c].markets]
                               ELSE lastRefreshed
    /\ UNCHANGED <<spotMarkets, orderVars, averageVars, walletVars, alertVars, monitorVars,
                   lastRead, written,
                   marketUpdateInterval, running>>

\* what a reader gets from fs.promises.readFile followed by JSON.parse
ReadFile(by) ==
    IF Parses(file) THEN [by |-> by, ok |-> TRUE, markets |-> Parse(file)]
    ELSE [by |-> by, ok |-> FALSE, markets |-> <<>>]

\* handleMarketSearch reads and parses the file after its refresh
SearchRead ==
    /\ running
    /\ refresh["search"].pc = "reading"
    /\ lastRead' = ReadFile("search")
    /\ refresh' = [refresh EXCEPT !["search"] = RefreshEnded("ok")]
    /\ UNCHANGED <<spotMarkets, orderVars, averageVars, walletVars, alertVars, monitorVars,
                   file, lastRefreshed, written,
                   marketUpdateInterval, running>>

\* the all_markets callback reads and parses the file
AllMarketsRead ==
    /\ running
    /\ lastRead' = ReadFile("all_markets")
    /\ UNCHANGED <<spotMarkets, orderVars, averageVars, walletVars, alertVars, monitorVars,
                   file, refresh, lastRefreshed, written,
                   marketUpdateInterval, running>>

\* getMarketDetails finds the ticker in its market list
LookupFinds(ticker) == FindMarket(spotMarkets, ticker) # NoMarket

(***************************************************************************)
(* The price alerts of Telegram.ts: createMarketAlert and checkMarketAlerts, *)
(* which setInterval starts every 60 seconds whether or not the run before   *)
(* has finished.                                                             *)
(***************************************************************************)
Users == {"U1", "U2"}
Conditions == {"above", "below"}
TargetPrices == {10}
\* what fetchMarketSummary returns as the price while alerts are checked
AlertPrices == {9, 10, 11}
AlertIds == 1..MaxAlerts
TickIds == 1..MaxRuns
LoopIds == 1..MaxRuns

\* the number of alerts created so far
RECURSIVE CountAlerts(_)
CountAlerts(ma) ==
    IF ma = <<>> THEN 0 ELSE Len(Head(ma).alerts) + CountAlerts(Tail(ma))

\* marketAlerts.get(userId): the index of the user's entry, 0 when there is none
EntryOf(ma, userId) ==
    LET hits == {i \in 1..Len(ma) : ma[i].userId = userId}
    IN  IF hits = {} THEN 0 ELSE CHOOSE i \in hits : TRUE

\* a mutant: >= and <= in place of > and <
PriceCrossedInclusive(alert, currentPrice) ==
    \/ alert.condition = "above" /\ currentPrice >= alert.targetPrice
    \/ alert.condition = "below" /\ currentPrice <= alert.targetPrice

\* the test checkMarketAlerts applies to the current price
PriceCrossed(alert, currentPrice) ==
    \/ alert.condition = "above" /\ currentPrice > alert.targetPrice
    \/ alert.condition = "below" /\ currentPrice < alert.targetPrice

\* the two for-of loops of checkMarketAlerts: the next alert at or after
\* (u, a) that is active; the iterators are live, so entries and alerts added
\* meanwhile are visited
RECURSIVE Seek(_, _, _)
Seek(ma, u, a) ==
    IF u > Len(ma) THEN [done |-> TRUE, u |-> 0, a |-> 0]
    ELSE IF a > Len(ma[u].alerts) THEN Seek(ma, u + 1, 1)
    ELSE IF ~ma[u].alerts[a].active THEN Seek(ma, u, a + 1)
    ELSE [done |-> FALSE, u |-> u, a |-> a]

\* a run of checkMarketAlerts that has not started, or has returned
IdleTick == [pc |-> "idle", u |-> 0, a |-> 0, currentPrice |-> 0]

\* a run goes on from (u, a) until its next await: it ends, or it calls
\* getMarketDataByTicker for the next active alert, where getMarketDetails
\* either throws at once (unknown ticker) or awaits the indexer (the market
\* summary, then the order book)
ContinueTick(ma, u, a) ==
    LET s == Seek(ma, u, a) IN
    IF s.done THEN IdleTick
    ELSE [pc |-> IF LookupFinds(ma[s.u].alerts[s.a].ticker)
                 THEN "awaitDetails" ELSE "awaitReject",
          u |-> s.u, a |-> s.a, currentPrice |-> 0]

\* the evaluations in progress, a scheduled run of monitorPriceAlerts included
RunsInProgress(ls) ==
    Cardinality({t \in TickIds : ticks[t].pc # "idle"})
        + Cardinality({l \in LoopIds : ls[l].pc # "idle"})

\* the alert a run is at
AlertAt(t) == marketAlerts[ticks[t].u].alerts[ticks[t].a]

\* createMarketAlert: the alert is pushed to the user's array
CreateMarketAlert(userId, ticker, targetPrice, condition) ==
    /\ running
    /\ CountAlerts(marketAlerts) + added < MaxAlerts
    /\ LET alert == [id |-> CountAlerts(marketAlerts) + 1, userId |-> userId,
                     ticker |-> ticker, targetPrice |-> targetPrice,
                     condition |-> condition, active |-> TRUE]
           e == EntryOf(marketAlerts, userId)
       IN  marketAlerts' =
               IF e = 0
               THEN Append(marketAlerts, [userId |-> userId, alerts |-> <<alert>>])
               ELSE [marketAlerts EXCEPT ![e].alerts = Append(@, alert)]
    /\ UNCHANGED <<spotMarkets, orderVars, averageVars, walletVars, cacheVars, monitorVars, ticks, sent>>

\* the 60-second timer fires: a new run of checkMarketAlerts starts, whether or
\* not the earlier ones have returned
TimerFires(t) ==
    /\ running
    /\ ticks[t].pc = "idle"
    /\ \A k \in TickIds : ticks[k].pc = "idle" => t <= k
    /\ RunsInProgress(loops) < MaxRuns
    /\ ticks' = [ticks EXCEPT ![t] = ContinueTick(marketAlerts, 1, 1)]
    /\ UNCHANGED <<spotMarkets, orderVars, averageVars, walletVars, cacheVars, monitorVars, marketAlerts, sent>>

\* getMarketDetails threw for an unknown ticker: the catch block logs and the
\* loop goes on
TickLookupRejects(t) ==
    /\ running
    /\ ticks[t].pc = "awaitReject"
    /\ ticks' = [ticks EXCEPT ![t] =
                    ContinueTick(marketAlerts, ticks[t].u, ticks[t].a + 1)]
    /\ UNCHANGED <<spotMarkets, orderVars, averageVars, walletVars, cacheVars, monitorVars, marketAlerts, sent>>

\* a mutant: the rejection ends the run
TickDetailsRejectAborting(t) ==
    /\ running
    /\ ticks[t].pc = "awaitDetails"
    /\ ticks' = [ticks EXCEPT ![t] = IdleTick]
    /\ UNCHANGED <<spotMarkets, orderVars, averageVars, walletVars, cacheVars, monitorVars, marketAlerts, sent>>

\* getMarketDetails rejects (fetchMarketSummary or fetchOrderbookV2 failed): the
\* catch block logs and the loop goes on
TickDetailsReject(t) ==
    /\ running
    /\ ticks[t].pc = "awaitDetails"
    /\ ticks' = [ticks EXCEPT ![t] =
                    ContinueTick(marketAlerts, ticks[t].u, ticks[t].a + 1)]
    /\ UNCHANGED <<spotMarkets, orderVars, averageVars, walletVars, cacheVars, monitorVars, marketAlerts, sent>>

\* getMarketDataByTicker returns with the price of the market summary: when the
\* condition holds the alert is made inactive and sendMessage is awaited with
\* the price in its text, else the loop goes on
TickDetailsResolve(t, price) ==
    /\ running
    /\ ticks[t].pc = "awaitDetails"
    /\ IF PriceCrossed(AlertAt(t), price)
       THEN /\ marketAlerts' = [marketAlerts EXCEPT
                    ![ticks[t].u].alerts[ticks[t].a].active = FALSE]
            /\ sent' = [sent EXCEPT ![AlertAt(t).id] = @ + 1]
            /\ ticks' = [ticks EXCEPT ![t].pc = "awaitSend",
                                      ![t].currentPrice = price]
       ELSE /\ ticks' = [ticks EXCEPT ![t] =
                    ContinueTick(marketAlerts, ticks[t].u, ticks[t].a + 1)]
            /\ UNCHANGED <<marketAlerts, sent>>
    /\ UNCHANGED <<spotMarkets, orderVars, averageVars, walletVars, cacheVars, monitorVars>>

\* sendMessage resolves: the loop goes on
TickSendResolves(t) ==
    /\ running
    /\ ticks[t].pc = "awaitSend"
    /\ ticks' = [ticks EXCEPT ![t] =
                    ContinueTick(marketAlerts, ticks[t].u, ticks[t].a + 1)]
    /\ UNCHANGED <<spotMarkets, orderVars, averageVars, walletVars, cacheVars, monitorVars, marketAlerts, sent>>

\* sendMessage rejects: the catch block logs and the loop goes on
TickSendRejects(t) ==
    /\ running
    /\ ticks[t].pc = "awaitSend"
    /\ ticks' = [ticks EXCEPT ![t] =
                    ContinueTick(marketAlerts, ticks[t].u, ticks[t].a + 1)]
    /\ UNCHANGED <<spotMarkets, orderVars, averageVars, walletVars, cacheVars, monitorVars, marketAlerts, sent>>

(***************************************************************************)
(* MarketMonitor (models.ts): the array of price alerts and the chain of    *)
(* monitorPriceAlerts runs, each of which schedules the next one 30 seconds *)
(* after it ends, as long as alerts remain.                                 *)
(***************************************************************************)
PriceAlertIds == 1..MaxAlerts

\* the test of monitorPriceAlerts
shouldTrigger(alert, currentPrice) ==
    \/ alert.condition = "above" /\ currentPrice > alert.targetPrice
    \/ alert.condition = "below" /\ currentPrice < alert.targetPrice

\* a chain that is not running: arr is the array object the for-of loop
\* iterates, aliased tells whether this.priceAlerts is still that object
IdleLoop == [pc |-> "idle", arr |-> <<>>, aliased |-> FALSE, idx |-> 0,
             marketData |-> <<>>, pos |-> 0, currentPrice |-> 0]

\* removePriceAlert's filter: every alert of the user on the ticker goes
Remaining(alerts, userId, ticker) ==
    SelectSeq(alerts, LAMBDA x : ~(x.userId = userId /\ x.ticker = ticker))

\* the for-of loop from index idx: the next alert whose market is in marketData
\* (the base and quote symbols are the two halves of the ticker), 0 when the
\* array has no more
RECURSIVE SeekListed(_, _, _)
SeekListed(arr, idx, marketData) ==
    IF idx > Len(arr) THEN 0
    ELSE IF FindMarket(marketData, arr[idx].ticker) = NoMarket
         THEN SeekListed(arr, idx + 1, marketData)
         ELSE idx

\* a mutant: the run that ends never schedules the next one
EndPassStopping(alerts) == IdleLoop

\* the end of a run: the next one is scheduled if alerts remain
EndPass(alerts) ==
    IF Len(alerts) > 0 THEN [IdleLoop EXCEPT !.pc = "scheduled"] ELSE IdleLoop

\* a run goes on from index idx until its next await: getMarketDetails of the
\* next listed alert, which throws at once for a ticker its list does not have
ContinueLoop(lp, idx, alerts) ==
    LET j == SeekListed(lp.arr, idx, lp.marketData) IN
    IF j = 0 THEN EndPass(alerts)
    ELSE [lp EXCEPT !.pc = IF LookupFinds(lp.arr[j].ticker)
                           THEN "awaitDetails" ELSE "awaitReject",
                    !.idx = j, !.currentPrice = 0]

\* the flag after a run of chain l went on to lp
MonitoringAfter(lp) == IF lp.pc = "idle" THEN FALSE ELSE monitoring

\* monitorPriceAlerts is called: without a bot it returns at once, with one it
\* awaits getSpotMarketData
CanCall(ls) == bot => RunsInProgress(ls) < MaxRuns
Called(ls) ==
    IF ~bot THEN ls
    ELSE LET l == CHOOSE l \in LoopIds :
                     /\ ls[l].pc = "idle"
                     /\ \A k \in LoopIds : ls[k].pc = "idle" => l <= k
         IN  [ls EXCEPT ![l] = [IdleLoop EXCEPT !.pc = "fetching"]]

\* setBot
setBot ==
    /\ running
    /\ bot' = TRUE
    /\ UNCHANGED <<spotMarkets, orderVars, averageVars, walletVars, cacheVars, alertVars, priceAlerts,
                   monitoring, loops, added, priceSent>>

\* addPriceAlert: the alert is pushed, and startMonitoring is called when the
\* flag is down
addPriceAlert(userId, ticker, targetPrice, condition) ==
    /\ running
    /\ CountAlerts(marketAlerts) + added < MaxAlerts
    /\ ~monitoring => CanCall(loops)
    /\ LET alert == [id |-> added + 1, userId |-> userId, ticker |-> ticker,
                     targetPrice |-> targetPrice, condition |-> condition]
           pushed == [l \in LoopIds |->
                        IF loops[l].aliased
                        THEN [loops[l] EXCEPT !.arr = Append(@, alert)]
                        ELSE loops[l]]
       IN  /\ priceAlerts' = Append(priceAlerts, alert)
           /\ loops' = IF monitoring THEN pushed ELSE Called(pushed)
    /\ added' = added + 1
    /\ monitoring' = TRUE
    /\ marketUpdateInterval' = IF monitoring THEN marketUpdateInterval ELSE TRUE
    /\ UNCHANGED <<spotMarkets, orderVars, averageVars, walletVars, alertVars, file, refresh, lastRead,
                   lastRefreshed, written, running, bot, priceSent>>

\* startMonitoring: a chain of runs is started if the flag is down and there
\* are alerts, and the 5-minute timer is armed if it is not
startMonitoring ==
    /\ running
    /\ LET starts == ~monitoring /\ Len(priceAlerts) > 0
       IN  /\ starts => CanCall(loops)
           /\ monitoring' = (monitoring \/ starts)
           /\ loops' = IF starts THEN Called(loops) ELSE loops
    /\ marketUpdateInterval' = TRUE
    /\ UNCHANGED <<spotMarkets, orderVars, averageVars, walletVars, alertVars, file, refresh, lastRead,
                   lastRefreshed, written, running, priceAlerts, bot, added,
                   priceSent>>

\* stopMonitoring clears the 5-minute timer and the flag; a pending 30-second
\* timeout is not cleared
stopMonitoring ==
    /\ running
    /\ marketUpdateInterval' = FALSE
    /\ monitoring' = FALSE
    /\ UNCHANGED <<spotMarkets, orderVars, averageVars, walletVars, alertVars, file, refresh, lastRead,
                   lastRefreshed, written, running, priceAlerts, bot, loops,
                   added, priceSent>>

\* the 30-second timeout fires: monitorPriceAlerts runs again
LoopTimerFires(l) ==
    /\ running
    /\ loops[l].pc = "scheduled"
    /\ loops' = [loops EXCEPT ![l] =
                    IF bot THEN [IdleLoop EXCEPT !.pc = "fetching"] ELSE IdleLoop]
    /\ UNCHANGED <<spotMarkets, orderVars, averageVars, walletVars, cacheVars, alertVars, priceAlerts,
                   monitoring, bot, added, priceSent>>

\* getSpotMarketData of a run: fetchMarkets resolves
LoopFetchResolves(l) ==
    /\ running
    /\ loops[l].pc = "fetching"
    /\ \E markets \in CacheLists :
         /\ loops' = [loops EXCEPT ![l] =
                         [@ EXCEPT !.pc = "opening", !.marketData = markets]]
         /\ written' = written \cup {markets}
    /\ UNCHANGED <<spotMarkets, orderVars, averageVars, walletVars, alertVars, file, refresh, lastRead,
                   lastRefreshed, marketUpdateInterval, running, priceAlerts,
                   monitoring, bot, added, priceSent>>

\* fetchMarkets rejects: getSpotMarketData rethrows, the outer catch logs, and
\* the run ends without having looked at any alert
LoopFetchRejects(l) ==
    /\ running
    /\ loops[l].pc = "fetching"
    /\ LET lp == EndPass(priceAlerts)
       IN  /\ loops' = [loops EXCEPT ![l] = lp]
           /\ monitoring' = MonitoringAfter(lp)
    /\ UNCHANGED <<spotMarkets, orderVars, averageVars, walletVars, cacheVars, alertVars, priceAlerts,
                   bot, added, priceSent>>

\* writeFile opens the file, which truncates it
LoopWriteOpen(l) ==
    /\ running
    /\ loops[l].pc = "opening"
    /\ file' = <<>>
    /\ loops' = [loops EXCEPT ![l].pc = "writing"]
    /\ UNCHANGED <<spotMarkets, orderVars, averageVars, walletVars, alertVars, refresh, lastRead,
                   lastRefreshed, written, marketUpdateInterval, running,
                   priceAlerts, monitoring, bot, added, priceSent>>

\* writeFile writes its next chunk; after the last one getSpotMarketData returns
\* the list and the for-of loop starts on the array this.priceAlerts is then
LoopWriteChunk(l) ==
    /\ running
    /\ loops[l].pc = "writing"
    /\ LET data == Stringify(loops[l].marketData)
           pos == loops[l].pos
           n == IF Len(data) - pos > ChunkTokens THEN ChunkTokens
                ELSE Len(data) - pos
           last == pos + n = Len(data)
           lp == IF ~last THEN [loops[l] EXCEPT !.pos = pos + n]
                 ELSE ContinueLoop([loops[l] EXCEPT !.arr = priceAlerts,
                                                    !.aliased = TRUE,
                                                    !.pos = 0],
                                   1, priceAlerts)
       IN  /\ file' = WriteAt(file, pos, SubSeq(data, pos + 1, pos + n))
           /\ loops' = [loops EXCEPT ![l] = lp]
           /\ monitoring' = MonitoringAfter(lp)
           /\ lastRefreshed' =
                  IF last THEN [valid |-> TRUE, markets |-> loops[l].marketData]
                  ELSE lastRefreshed
    /\ UNCHANGED <<spotMarkets, orderVars, averageVars, walletVars, alertVars, refresh, lastRead, written,
                   marketUpdateInterval, running, priceAlerts, bot, added,
                   priceSent>>

\* getMarketDetails throws "not found": the inner catch logs, the loop goes on
LoopLookupRejects(l) ==
    /\ running
    /\ loops[l].pc = "awaitReject"
    /\ LET lp == ContinueLoop(loops[l], loops[l].idx + 1, priceAlerts)
       IN  /\ loops' = [loops EXCEPT ![l] = lp]
           /\ monitoring' = MonitoringAfter(lp)
    /\ UNCHANGED <<spotMarkets, orderVars, averageVars, walletVars, cacheVars, alertVars, priceAlerts,
                   bot, added, priceSent>>

\* getMarketDetails rejects: fetchMarketSummary or fetchOrderbookV2 failed
LoopDetailsReject(l) ==
    /\ running
    /\ loops[l].pc = "awaitDetails"
    /\ LET lp == ContinueLoop(loops[l], loops[l].idx + 1, priceAlerts)
       IN  /\ loops' = [loops EXCEPT ![l] = lp]
           /\ monitoring' = MonitoringAfter(lp)
    /\ UNCHANGED <<spotMarkets, orderVars, averageVars, walletVars, cacheVars, alertVars, priceAlerts,
                   bot, added, priceSent>>

\* getMarketDetails returns with the price of the market summary: the condition
\* is tested and, if it holds, sendMessage is called with the price in its text
\* and awaited
LoopDetailsResolve(l, price) ==
    /\ running
    /\ loops[l].pc = "awaitDetails"
    /\ shouldTrigger(loops[l].arr[loops[l].idx], price) =>
           priceSent[loops[l].arr[loops[l].idx].id] < MaxSends
    /\ LET alert == loops[l].arr[loops[l].idx]
           triggers == shouldTrigger(alert, price)
           lp == IF triggers
                 THEN [loops[l] EXCEPT !.pc = "awaitSend", !.currentPrice = price]
                 ELSE ContinueLoop(loops[l], loops[l].idx + 1, priceAlerts)
       IN  /\ loops' = [loops EXCEPT ![l] = lp]
           /\ monitoring' = MonitoringAfter(lp)
           /\ priceSent' = IF triggers
                           THEN [priceSent EXCEPT ![alert.id] = @ + 1]
                           ELSE priceSent
    /\ UNCHANGED <<spotMarkets, orderVars, averageVars, walletVars, cacheVars, alertVars, priceAlerts,
                   bot, added>>

\* sendMessage resolves: removePriceAlert replaces this.priceAlerts by a new,
\* filtered array, and the loops in progress go on over the old one
LoopSendResolves(l) ==
    /\ running
    /\ loops[l].pc = "awaitSend"
    /\ LET alert == loops[l].arr[loops[l].idx]
           alerts == Remaining(priceAlerts, alert.userId, alert.ticker)
           lp == ContinueLoop(loops[l], loops[l].idx + 1, alerts)
       IN  /\ priceAlerts' = alerts
           /\ loops' = [k \in LoopIds |->
                          IF k = l THEN [lp EXCEPT !.aliased = FALSE]
                          ELSE [loops[k] EXCEPT !.aliased = FALSE]]
           /\ monitoring' = MonitoringAfter(lp)
    /\ UNCHANGED <<spotMarkets, orderVars, averageVars, walletVars, cacheVars, alertVars, bot, added,
                   priceSent>>

\* sendMessage rejects: the catch logs and the alert stays
LoopSendRejects(l) ==
    /\ running
    /\ loops[l].pc = "awaitSend"
    /\ LET lp == ContinueLoop(loops[l], loops[l].idx + 1, priceAlerts)
       IN  /\ loops' = [loops EXCEPT ![l] = lp]
           /\ monitoring' = MonitoringAfter(lp)
    /\ UNCHANGED <<spotMarkets, orderVars, averageVars, walletVars, cacheVars, alertVars, priceAlerts,
                   bot, added, priceSent>>

(***************************************************************************)
(* getMarketDetails (injective.ts): the average price of one side of the    *)
(* order book, at the resolution of the book.  In this part the prices of   *)
(* the levels are integers in units of 0.00001, one digit finer than        *)
(* toFixed(4) keeps, and a level may have the quantity 0.                   *)
(***************************************************************************)
\* the longest side fetchOrderbookV2 returns here: more than the code averages
MaxBookLevels == 6

\* the sides fetchOrderbookV2 may return: levels of the quantity 1 at 0.00004
\* or at 0.0002, and a level of the quantity 0
FetchedSides ==
    UNION {[1..n -> {[price |-> 4, quantity |-> 1],
                     [price |-> 20, quantity |-> 1],
                     [price |-> 4, quantity |-> 0]}] : n \in 0..MaxBookLevels}

\* averageBuyPrice of the record returned: the mean of the top levels rounded
\* by toFixed(4) to a multiple of 0.0001, or null without volume; "0.0000" is
\* a non-empty string, so it is parsed to 0 and not replaced by null
AverageOfLevels(side) ==
    LET top == Slice(side, maxOrdersToConsider)
        totalVolume ==
            SumOver([i \in 1..Len(top) |-> top[i].quantity], Len(top))
        weighted ==
            SumOver([i \in 1..Len(top) |-> top[i].price * top[i].quantity],
                    Len(top))
    IN  IF totalVolume > 0 THEN 10 * ToFixed4(weighted, 10 * totalVolume)
        ELSE Null

\* no average computed yet
NoAverage == [done |-> FALSE, value |-> Null]

\* fetchOrderbookV2 resolves with a side, once
OrderbookFetched(side) ==
    /\ levels = <<>>
    /\ ~average.done
    /\ levels' = side
    /\ average' = NoAverage
    /\ UNCHANGED <<spotMarkets, orderVars, cacheVars, alertVars, monitorVars,
                   walletVars>>

\* getMarketDetails averages the side and returns
AverageComputed ==
    /\ ~average.done
    /\ average' = [done |-> TRUE, value |-> AverageOfLevels(levels)]
    /\ UNCHANGED <<spotMarkets, orderVars, cacheVars, alertVars, monitorVars,
                   walletVars, levels>>

(***************************************************************************)
(* The wallets of a user and the callback buttons that name them by index   *)
(* (Telegram.ts).  bot.start() handles one update at a time, so the part of *)
(* a handler that runs for one update is one step.  A handler's early       *)
(* return that changes nothing is a guard.                                  *)
(***************************************************************************)
\* the longest wallet list
MaxWallets == 2
\* the messages with a callback button sent to the chat
MaxKeyboards == 2
\* the deliveries of callbacks recorded, placed and removed together
MaxDeliveries == 2

WalletNames == {"main", "spare"}
PrivateKeys == {"0xa", "0xb"}

\* getInjectiveAddress(new ethers.Wallet(privateKey).address)
AddressOf(privateKey) == IF privateKey = "0xa" THEN "inj1a" ELSE "inj1b"

\* decryptPrivateKey (utils.ts): the key, or, when the decipher throws, the
\* text its catch block returns; it never throws.  A wallet's `encrypted` is
\* written as the key it encrypts.
decryptPrivateKey(encrypted, deciphers) ==
    IF deciphers THEN encrypted ELSE "Error in Decrypting key"

\* userSettings.wallets.some(w => w.name === walletName)
NameExists(wallets, walletName) ==
    \E i \in 1..Len(wallets) : wallets[i].name = walletName

\* userSettings.wallets[walletIndex], walletIndex counting from 0
WalletAt(wallets, walletIndex) == wallets[walletIndex + 1]

\* wallets.push({name, address, encrypted, iv, tag}) and, for the first wallet,
\* tradingPreferences.defaultWallet = address
WithWallet(settings, walletName, privateKey) ==
    [wallets |-> Append(settings.wallets,
                        [name |-> walletName, address |-> AddressOf(privateKey),
                         encrypted |-> privateKey]),
     defaultWallet |-> IF Len(settings.wallets) = 0 THEN AddressOf(privateKey)
                       ELSE settings.defaultWallet]

\* handleCreateWallet, after the name was typed: createInjectiveWallet draws
\* a key no wallet holds
HandleCreateWallet(walletName) ==
    /\ Len(userSettings.wallets) < MaxWallets
    /\ ~NameExists(userSettings.wallets, walletName)
    /\ \E privateKey \in PrivateKeys :
          /\ \A i \in 1..Len(userSettings.wallets) :
                userSettings.wallets[i].encrypted # privateKey
          /\ userSettings' = WithWallet(userSettings, walletName, privateKey)
    /\ UNCHANGED <<spotMarkets, orderVars, cacheVars, alertVars, monitorVars,
                   averageVars, keyboards, placed, removed>>

\* handleImportWallet, after the name and the private key were typed
HandleImportWallet(walletName, privateKey) ==
    /\ Len(userSettings.wallets) < MaxWallets
    /\ ~NameExists(userSettings.wallets, walletName)
    /\ userSettings' = WithWallet(userSettings, walletName, privateKey)
    /\ UNCHANGED <<spotMarkets, orderVars, cacheVars, alertVars, monitorVars,
                   averageVars, keyboards, placed, removed>>

\* editWalletNameConversation, after the new name was typed
EditWalletName(walletIndex, newWalletName) ==
    /\ walletIndex < Len(userSettings.wallets)
    /\ userSettings' =
          [userSettings EXCEPT !.wallets[walletIndex + 1].name = newWalletName]
    /\ UNCHANGED <<spotMarkets, orderVars, cacheVars, alertVars, monitorVars,
                   averageVars, keyboards, placed, removed>>

\* handleSetDefaultWallet
HandleSetDefaultWallet(walletIndex) ==
    /\ walletIndex < Len(userSettings.wallets)
    /\ userSettings' =
          [userSettings EXCEPT
              !.defaultWallet = WalletAt(userSettings.wallets, walletIndex).address]
    /\ UNCHANGED <<spotMarkets, orderVars, cacheVars, alertVars, monitorVars,
                   averageVars, keyboards, placed, removed>>

\* a message with a button: the callback data's prefix and wallet index, and
\* the address of the wallet the message shows
Keyboard(data, walletIndex, wallet) ==
    [data |-> data, walletIndex |-> walletIndex, address |-> wallet.address]

\* handleWalletSelection: the wallet at the index is shown as selected and,
\* once the quantity was typed, the order summary is sent with the button
\* confirm_..._<walletIndex> (the two halves with the same wallet list)
HandleWalletSelection(walletIndex) ==
    /\ Len(keyboards) < MaxKeyboards
    /\ walletIndex < Len(userSettings.wallets)
    /\ keyboards' =
          Append(keyboards,
                 Keyboard("confirm", walletIndex,
                          WalletAt(userSettings.wallets, walletIndex)))
    /\ UNCHANGED <<spotMarkets, orderVars, cacheVars, alertVars, monitorVars,
                   averageVars, userSettings, placed, removed>>

\* showPrivateKeyAndDeleteWallet: the key of the wallet at the index is shown
\* with the button delete_wallet_<walletIndex>
ShowPrivateKeyAndDeleteWallet(walletIndex) ==
    /\ Len(keyboards) < MaxKeyboards
    /\ walletIndex < Len(userSettings.wallets)
    /\ keyboards' =
          Append(keyboards,
                 Keyboard("delete_wallet", walletIndex,
                          WalletAt(userSettings.wallets, walletIndex)))
    /\ UNCHANGED <<spotMarkets, orderVars, cacheVars, alertVars, monitorVars,
                   averageVars, userSettings, placed, removed>>

\* the callback confirm_... of message k is delivered: handleOrderConfirmation
\* reads the wallet at the index of the callback data, decrypts its key and
\* calls placeOrder with the result; its catch block, which cancels the order,
\* runs only for a decryptPrivateKey that throws ("throw")
HandleOrderConfirmation(k, deciphers) ==
    /\ k \in 1..Len(keyboards)
    /\ keyboards[k].data = "confirm"
    /\ Len(placed) + Len(removed) < MaxDeliveries
    /\ keyboards[k].walletIndex < Len(userSettings.wallets)
    /\ LET selectedWallet ==
               WalletAt(userSettings.wallets, keyboards[k].walletIndex)
           privateKey == decryptPrivateKey(selectedWallet.encrypted, deciphers)
       IN  /\ privateKey # "throw"
           /\ placed' = Append(placed,
                               [keyboard |-> k, privateKey |-> privateKey,
                                address |-> selectedWallet.address,
                                deciphered |-> deciphers])
    /\ UNCHANGED <<spotMarkets, orderVars, cacheVars, alertVars, monitorVars,
                   averageVars, userSettings, keyboards, removed>>

\* wallets.splice(walletIndex, 1)
Splice(wallets, walletIndex) ==
    [i \in 1..(Len(wallets) - 1) |->
        IF i <= walletIndex THEN wallets[i] ELSE wallets[i + 1]]

\* a mutant: the default wallet setting is left as it is
AfterDeletionKeepingDefault(settings, walletIndex) ==
    [settings EXCEPT !.wallets = Splice(settings.wallets, walletIndex)]

\* the document finalizeWalletDeletion saves
AfterDeletion(settings, walletIndex) ==
    [wallets |-> Splice(settings.wallets, walletIndex),
     defaultWallet |->
         IF WalletAt(settings.wallets, walletIndex).address = settings.defaultWallet
         THEN "" ELSE settings.defaultWallet]

\* the callback delete_wallet_<index> of message k is delivered:
\* finalizeWalletDeletion removes the wallet now at the index
FinalizeWalletDeletion(k) ==
    /\ k \in 1..Len(keyboards)
    /\ keyboards[k].data = "delete_wallet"
    /\ Len(placed) + Len(removed) < MaxDeliveries
    /\ keyboards[k].walletIndex < Len(userSettings.wallets)
    /\ userSettings' = AfterDeletion(userSettings, keyboards[k].walletIndex)
    /\ removed' =
          Append(removed,
                 [keyboard |-> k,
                  address |-> WalletAt(userSettings.wallets,
                                       keyboards[k].walletIndex).address])
    /\ UNCHANGED <<spotMarkets, orderVars, cacheVars, alertVars, monitorVars,
                   averageVars, keyboards, placed>>

(***************************************************************************)
(* The specifications: one per part of the program, each leaving the other  *)
(* parts in their initial state.                                            *)
(***************************************************************************)
InitCacheVars ==
    /\ file = Stringify(spotMarkets)
    /\ refresh = [c \in Callers |-> IdleRefresh]
    /\ lastRead = NoRead
    /\ lastRefreshed = [valid |-> FALSE, markets |-> <<>>]
    /\ written = {spotMarkets}
    /\ marketUpdateInterval = TRUE
    /\ running = TRUE

InitAlertVars ==
    /\ marketAlerts = <<>>
    /\ ticks = [t \in TickIds |-> IdleTick]
    /\ sent = [i \in AlertIds |-> 0]

\* no order book averaged yet; the user's document as /start creates it, and
\* a chat without buttons
InitUserVars ==
    /\ levels = <<>>
    /\ average = NoAverage
    /\ userSettings = [wallets |-> <<>>, defaultWallet |-> ""]
    /\ keyboards = <<>>
    /\ placed = <<>>
    /\ removed = <<>>

\* MarketMonitor as constructed
InitMonitorVars ==
    /\ priceAlerts = <<>>
    /\ monitoring = FALSE
    /\ bot = FALSE
    /\ loops = [l \in LoopIds |-> IdleLoop]
    /\ added = 0
    /\ priceSent = [i \in PriceAlertIds |-> 0]

\* the program once startBot (index.ts) has run: it has constructed the
\* MarketMonitor, given it the bot and called startMonitoring, which armed the
\* 5-minute timer and, there being no alerts, started no loop
InitStarted ==
    /\ order = IdleOrder
    /\ InitUserVars
    /\ InitCacheVars
    /\ InitAlertVars
    /\ priceAlerts = <<>>
    /\ monitoring = FALSE
    /\ bot = TRUE
    /\ loops = [l \in LoopIds |-> IdleLoop]
    /\ added = 0
    /\ priceSent = [i \in PriceAlertIds |-> 0]

\* the market lists SpotMarket.json may hold when the order module is loaded
OrderSnapshots ==
    {<<MarketWith("INJ/USDT", tick, IF tick = 1 THEN 5 ELSE 1)>> :
        tick \in PriceTicks}

InitOrder ==
    /\ spotMarkets \in OrderSnapshots
    /\ InitStarted

NextOrder ==
    \/ PlaceOrderCall
    \/ OrderSummaryResolves
    \/ OrderFetchRejects
    \/ OrderBuildThrows
    \/ OrderbookResolves
    \/ BroadcastResolves
    \/ BroadcastRejects

SpecOrder == InitOrder /\ [][NextOrder]_vars

\* market lists whose market has a price tick or a quantity tick that is zero
\* or negative
BadTickSnapshots ==
    {<<MarketWith("INJ/USDT", 0, 1)>>, <<MarketWith("INJ/USDT", -5, 1)>>,
     <<MarketWith("INJ/USDT", 1, 0)>>, <<MarketWith("INJ/USDT", 1, -5)>>}

InitBadTick ==
    /\ spotMarkets \in BadTickSnapshots
    /\ InitStarted

SpecBadTick == InitBadTick /\ [][NextOrder]_vars

InitAverage ==
    /\ spotMarkets = <<Market("INJ/USDT", 1)>>
    /\ InitStarted

NextAverage ==
    \/ \E side \in FetchedSides : OrderbookFetched(side)
    \/ AverageComputed

SpecAverage == InitAverage /\ [][NextAverage]_vars

InitWallets ==
    /\ spotMarkets = <<Market("INJ/USDT", 1)>>
    /\ InitStarted

NextWallets ==
    \/ \E walletName \in WalletNames : HandleCreateWallet(walletName)
    \/ \E walletName \in WalletNames, privateKey \in PrivateKeys :
         HandleImportWallet(walletName, privateKey)
    \/ \E walletIndex \in 0..(MaxWallets - 1),
          newWalletName \in WalletNames :
         EditWalletName(walletIndex, newWalletName)
    \/ \E walletIndex \in 0..(MaxWallets - 1) : HandleSetDefaultWallet(walletIndex)
    \/ \E walletIndex \in 0..(MaxWallets - 1) : HandleWalletSelection(walletIndex)
    \/ \E walletIndex \in 0..(MaxWallets - 1) :
         ShowPrivateKeyAndDeleteWallet(walletIndex)
    \/ \E k \in 1..MaxKeyboards, deciphers \in BOOLEAN :
         HandleOrderConfirmation(k, deciphers)
    \/ \E k \in 1..MaxKeyboards : FinalizeWalletDeletion(k)

SpecWallets == InitWallets /\ [][NextWallets]_vars

InitCache ==
    /\ spotMarkets \in CacheLists
    /\ InitStarted

NextCache ==
    \/ \E c \in Callers : RefreshCall(c)
    \/ \E c \in Callers : FetchResolves(c)
    \/ \E c \in Callers : FetchRejects(c)
    \/ \E c \in Callers : WriteOpen(c)
    \/ \E c \in Callers : WriteChunk(c)
    \/ SearchRead
    \/ AllMarketsRead

SpecCache == InitCache /\ [][NextCache]_vars

InitAlerts ==
    /\ spotMarkets = <<Market("INJ/USDT", 1)>>
    /\ InitStarted

NextAlerts ==
    \/ \E userId \in Users, ticker \in Tickers, targetPrice \in TargetPrices,
          condition \in Conditions :
         CreateMarketAlert(userId, ticker, targetPrice, condition)
    \/ \E t \in TickIds : TimerFires(t)
    \/ \E t \in TickIds : TickLookupRejects(t)
    \/ \E t \in TickIds : TickDetailsReject(t)
    \/ \E t \in TickIds, price \in AlertPrices : TickDetailsResolve(t, price)
    \/ \E t \in TickIds : TickSendResolves(t)
    \/ \E t \in TickIds : TickSendRejects(t)

SpecAlerts == InitAlerts /\ [][NextAlerts]_vars

\* MarketMonitor from its construction on; the 5-minute timer is not armed yet
InitMonitor ==
    /\ spotMarkets = <<Market("INJ/USDT", 1)>>
    /\ order = IdleOrder
    /\ file = Stringify(spotMarkets)
    /\ refresh = [c \in Callers |-> IdleRefresh]
    /\ lastRead = NoRead
    /\ lastRefreshed = [valid |-> FALSE, markets |-> <<>>]
    /\ written = {spotMarkets}
    /\ marketUpdateInterval = FALSE
    /\ running = TRUE
    /\ InitAlertVars
    /\ InitMonitorVars
    /\ InitUserVars

\* the steps of the chains of monitorPriceAlerts runs
NextLoops ==
    \/ \E l \in LoopIds : LoopTimerFires(l)
    \/ \E l \in LoopIds : LoopFetchResolves(l)
    \/ \E l \in LoopIds : LoopFetchRejects(l)
    \/ \E l \in LoopIds : LoopWriteOpen(l)
    \/ \E l \in LoopIds : LoopWriteChunk(l)
    \/ \E l \in LoopIds : LoopLookupRejects(l)
    \/ \E l \in LoopIds : LoopDetailsReject(l)
    \/ \E l \in LoopIds, price \in AlertPrices : LoopDetailsResolve(l, price)
    \/ \E l \in LoopIds : LoopSendResolves(l)
    \/ \E l \in LoopIds : LoopSendRejects(l)

\* the methods of MarketMonitor, called in any order
NextMonitor ==
    \/ setBot
    \/ \E userId \in Users, ticker \in Tickers, targetPrice \in TargetPrices,
          condition \in Conditions :
         addPriceAlert(userId, ticker, targetPrice, condition)
    \/ startMonitoring
    \/ stopMonitoring
    \/ NextLoops

SpecMonitor == InitMonitor /\ [][NextMonitor]_vars

\* both alert loops in the running program, where nothing calls setBot,
\* startMonitoring or stopMonitoring after startBot
InitEvaluation ==
    /\ spotMarkets = <<Market("INJ/USDT", 1)>>
    /\ InitStarted

NextEvaluation ==
    \/ NextAlerts
    \/ \E userId \in Users, ticker \in Tickers, targetPrice \in TargetPrices,
          condition \in Conditions :
         addPriceAlert(userId, ticker, targetPrice, condition)
    \/ NextLoops

SpecEvaluation == InitEvaluation /\ [][NextEvaluation]_vars

\* a run of checkMarketAlerts goes on: the promise it awaits settles
TickStep(t) ==
    \/ TickLookupRejects(t)
    \/ TickDetailsReject(t)
    \/ \E price \in AlertPrices : TickDetailsResolve(t, price)
    \/ TickSendResolves(t)
    \/ TickSendRejects(t)

\* a chain of monitorPriceAlerts runs goes on: its 30-second timeout fires, or
\* the promise it awaits settles
LoopStep(l) ==
    \/ LoopTimerFires(l)
    \/ LoopFetchResolves(l)
    \/ LoopFetchRejects(l)
    \/ LoopWriteOpen(l)
    \/ LoopWriteChunk(l)
    \/ LoopLookupRejects(l)
    \/ LoopDetailsReject(l)
    \/ \E price \in AlertPrices : LoopDetailsResolve(l, price)
    \/ LoopSendResolves(l)
    \/ LoopSendRejects(l)

\* the timers of the event loop fire (setInterval every 60 seconds, setTimeout
\* after 30), and every promise a run awaits is settled by the indexer, the
\* file system or Telegram, one way or the other
FairEvaluation ==
    /\ WF_vars(\E t \in TickIds : TimerFires(t))
    /\ \A t \in TickIds : WF_vars(TickStep(t))
    /\ \A l \in LoopIds : WF_vars(LoopStep(l))

SpecEvaluationFair == InitEvaluation /\ [][NextEvaluation]_vars /\ FairEvaluation

\* the order has been priced: its worst price is the one sent to the chain
Priced == order.pc \in {"awaitBroadcast", "done"}

(***************************************************************************)
(* Claims about the worst price.                                            *)
(***************************************************************************)
IsBuy == order.buyOrSell = 1
IsSell == order.buyOrSell = 2

\* C2: a sell order placed while a positive best bid is present is sent with a
\* rounded worst price that is at most the best bid.
C2_SellWorstAtMostBestBid ==
    (Priced /\ IsSell /\ order.marketDetails.bestBidPrice # Null
            /\ order.marketDetails.bestBidPrice > 0)
        => order.worstPrice <= order.marketDetails.bestBidPrice

\* C3: a buy order placed while a positive best ask a is present is sent with a
\* rounded worst price that is at least a.
C3_BuyWorstAtLeastBestAsk ==
    (Priced /\ IsBuy /\ order.marketDetails.bestAskPrice # Null
            /\ order.marketDetails.bestAskPrice > 0)
        => order.worstPrice >= order.marketDetails.bestAskPrice

\* a buy was priced off a best ask that is not a tick multiple and rounded past it
C3_Witness ==
    /\ Priced /\ IsBuy
    /\ order.marketDetails.bestAskPrice = 3
    /\ order.marketDetails.minPriceTickSize = 5
    /\ order.worstPrice = 5

\* C4 as stated: the buy price before rounding is bestAsk x 1.02 when the best ask
\* is present (not null), else averageSellPrice x 1.02 when that is present, else
\* lastPrice x 1.02.
C4_BuyBufferedByPresence ==
    (Priced /\ IsBuy) =>
        order.buffered =
            IF order.marketDetails.bestAskPrice # Null
            THEN order.marketDetails.bestAskPrice * 102
            ELSE IF order.marketDetails.averageSellPrice # Null
                 THEN order.marketDetails.averageSellPrice * 102
                 ELSE order.marketDetails.price * 102

\* C4 amended: the buy price before rounding is bestAsk x 1.02 when the best ask
\* is present and not zero, else averageSellPrice x 1.02 when that is present and
\* not zero, else lastPrice x 1.02.
C4_BuyBufferedByTruthiness ==
    (Priced /\ IsBuy) =>
        order.buffered =
            IF order.marketDetails.bestAskPrice # Null
               /\ order.marketDetails.bestAskPrice # 0
            THEN order.marketDetails.bestAskPrice * 102
            ELSE IF order.marketDetails.averageSellPrice # Null
                    /\ order.marketDetails.averageSellPrice # 0
                 THEN order.marketDetails.averageSellPrice * 102
                 ELSE order.marketDetails.price * 102

\* a buy was priced off the average sell price because the best ask was zero
C4_Witness ==
    /\ Priced /\ IsBuy
    /\ order.marketDetails.bestAskPrice = 0
    /\ order.marketDetails.averageSellPrice > 0
    /\ order.buffered = order.marketDetails.averageSellPrice * 102

\* C5 as stated: the sell price before rounding is bestBid x 0.98 when the best bid
\* is present (not null), else averageBuyPrice x 0.98 when that is present, else
\* lastPrice x 0.98.
C5_SellBufferedByPresence ==
    (Priced /\ IsSell) =>
        order.buffered =
            IF order.marketDetails.bestBidPrice # Null
            THEN order.marketDetails.bestBidPrice * 98
            ELSE IF order.marketDetails.averageBuyPrice # Null
                 THEN order.marketDetails.averageBuyPrice * 98
                 ELSE order.marketDetails.price * 98

\* C5 amended: the sell price before rounding is bestBid x 0.98 when the best bid
\* is present and not zero, else averageBuyPrice x 0.98 when that is present and
\* not zero, else lastPrice x 0.98; the buffer is never added.
C5_SellBufferedByTruthiness ==
    (Priced /\ IsSell) =>
        order.buffered =
            IF order.marketDetails.bestBidPrice # Null
               /\ order.marketDetails.bestBidPrice # 0
            THEN order.marketDetails.bestBidPrice * 98
            ELSE IF order.marketDetails.averageBuyPrice # Null
                    /\ order.marketDetails.averageBuyPrice # 0
                 THEN order.marketDetails.averageBuyPrice * 98
                 ELSE order.marketDetails.price * 98

\* a sell was priced off the average buy price because the best bid was zero
C5_Witness ==
    /\ Priced /\ IsSell
    /\ order.marketDetails.bestBidPrice = 0
    /\ order.marketDetails.averageBuyPrice > 0
    /\ order.buffered = order.marketDetails.averageBuyPrice * 98

NoWriteInProgress == \A c \in Callers : refresh[c].pc \notin {"opening", "writing"}

\* C7: once a refresh of the market list has completed, the lookup by ticker of
\* getMarketDetails finds exactly the tickers of the refreshed list.
C7_LookupReadsRefreshedList ==
    (lastRefreshed.valid /\ NoWriteInProgress) =>
        \A t \in Tickers :
            LookupFinds(t) <=> FindMarket(lastRefreshed.markets, t) # NoMarket

\* a step in which a refresh ends because fetchMarkets rejected
FetchFailureStep ==
    \E c \in Callers :
        /\ refresh[c].pc = "fetching"
        /\ refresh'[c].pc = "idle"
        /\ refresh'[c].outcome = "failed"

\* C8: a refresh whose fetch fails leaves the file and the imported list as they
\* were (every lookup and every read gives what it gave before), the process
\* keeps running and the refresh timer stays armed.
C8_FailedFetchKeepsCache ==
    [][FetchFailureStep =>
          /\ file' = file
          /\ spotMarkets' = spotMarkets
          /\ \A t \in Tickers : LookupFinds(t)' = LookupFinds(t)
          /\ running'
          /\ marketUpdateInterval' = marketUpdateInterval]_vars

\* the timer's refresh failed after an earlier refresh had written a list, and
\* the file still holds that list
C8_Witness ==
    /\ refresh["interval"].outcome = "failed"
    /\ lastRefreshed.valid
    /\ Parses(file)
    /\ Parse(file) = lastRefreshed.markets
    /\ running
    /\ marketUpdateInterval

\* C9: whatever a reader of the file reads while refreshes go on is a complete
\* list, one that some refresh wrote or the one the file held at the start.
C9_ReadersSeeCompleteList ==
    lastRead.by # "none" => (lastRead.ok /\ lastRead.markets \in written)

(***************************************************************************)
(* Claims about the price alerts.                                           *)
(***************************************************************************)
\* C1: over any sequence of runs of checkMarketAlerts, overlapping ones
\* included, at most one notification is sent for each alert.
C1_AtMostOneNotification == \A i \in AlertIds : sent[i] <= 1

\* the claim's own statement of when an alert triggers
ConditionMet(alert, price) ==
    \/ alert.condition = "above" /\ price > alert.targetPrice
    \/ alert.condition = "below" /\ price < alert.targetPrice

\* C10: when getMarketDetails returns a price for an alert, in a run of
\* checkMarketAlerts or of monitorPriceAlerts, sendMessage is called for the
\* alert if and only if (above and price > target) or (below and price < target);
\* a price equal to the target never triggers.
C10_TriggersIffCondition ==
    [][/\ \A t \in TickIds, price \in AlertPrices :
             TickDetailsResolve(t, price) =>
                LET alert == AlertAt(t)
                    notified == /\ sent'[alert.id] = sent[alert.id] + 1
                                /\ ticks'[t].pc = "awaitSend"
                IN  /\ notified <=> ConditionMet(alert, price)
                    /\ price = alert.targetPrice => ~notified
       /\ \A l \in LoopIds, price \in AlertPrices :
             LoopDetailsResolve(l, price) =>
                LET alert == loops[l].arr[loops[l].idx]
                    notified == /\ priceSent'[alert.id] = priceSent[alert.id] + 1
                                /\ loops'[l].pc = "awaitSend"
                IN  /\ notified <=> ConditionMet(alert, price)
                    /\ price = alert.targetPrice => ~notified]_vars

\* checkMarketAlerts is sending the notification of an alert "below 10" it
\* checked at price 9, and monitorPriceAlerts that of an alert "above 10" it
\* checked at price 11
C10_Witness ==
    /\ \E t \in TickIds :
          /\ ticks[t].pc = "awaitSend"
          /\ ticks[t].currentPrice = 9
          /\ AlertAt(t).condition = "below"
          /\ AlertAt(t).targetPrice = 10
          /\ sent[AlertAt(t).id] = 1
    /\ \E l \in LoopIds :
          /\ loops[l].pc = "awaitSend"
          /\ loops[l].currentPrice = 11
          /\ loops[l].arr[loops[l].idx].condition = "above"
          /\ loops[l].arr[loops[l].idx].targetPrice = 10

\* the alert with this id is in the Map marketAlerts
InRegistry(i) ==
    \E u \in 1..Len(marketAlerts) :
        \E a \in 1..Len(marketAlerts[u].alerts) : marketAlerts[u].alerts[a].id = i

\* no run of checkMarketAlerts is in progress
NoTickInProgress == \A t \in TickIds : ticks[t].pc = "idle"

\* C11: once the run of checkMarketAlerts in which an alert triggered has
\* returned, the alert is no longer in the registry.
C11_TriggeredAlertRemoved ==
    \A i \in AlertIds : (sent[i] > 0 /\ NoTickInProgress) => ~InRegistry(i)

\* the alert with this id is in the Map marketAlerts and active
ActiveInRegistry(i) ==
    \E u \in 1..Len(marketAlerts) :
        \E a \in 1..Len(marketAlerts[u].alerts) :
            marketAlerts[u].alerts[a].id = i /\ marketAlerts[u].alerts[a].active

\* a run of checkMarketAlerts is at the alert with this id
TickAt(i) == \E t \in TickIds : ticks[t].pc # "idle" /\ AlertAt(t).id = i

\* a run of monitorPriceAlerts has just been entered
RunEntered == \E l \in LoopIds : loops[l].pc = "fetching"

LaterActive(u, a) ==
    {p \in (1..Len(marketAlerts)) \X (1..MaxAlerts) :
        /\ p[2] <= Len(marketAlerts[p[1]].alerts)
        /\ marketAlerts[p[1]].alerts[p[2]].active
        /\ (p[1] > u \/ (p[1] = u /\ p[2] > a))}

\* the first position of a non-empty set of positions
FirstPosition(ps) ==
    CHOOSE p \in ps :
        \A q \in ps : p[1] < q[1] \/ (p[1] = q[1] /\ p[2] <= q[2])

\* the indexes after idx of the array a run iterates whose market is in the
\* list the run fetched
LaterListed(l) ==
    {j \in 1..Len(loops[l].arr) :
        /\ j > loops[l].idx
        /\ FindMarket(loops[l].marketData, loops[l].arr[j].ticker) # NoMarket}

\* C13: when getMarketDetails fails for one alert (it throws for a ticker it
\* does not know, or the indexer rejects), the run is not over: it goes on to
\* the next active alert of marketAlerts (checkMarketAlerts), to the next listed
\* alert of its array (monitorPriceAlerts), and it ends only when there is none.
C13_FailureDoesNotAbortRun ==
    [][/\ \A t \in TickIds :
             (TickDetailsReject(t) \/ TickLookupRejects(t)) =>
                LET later == LaterActive(ticks[t].u, ticks[t].a) IN
                IF later = {} THEN ticks'[t].pc = "idle"
                ELSE /\ ticks'[t].pc \in {"awaitDetails", "awaitReject"}
                     /\ <<ticks'[t].u, ticks'[t].a>> = FirstPosition(later)
       /\ \A l \in LoopIds :
             (LoopDetailsReject(l) \/ LoopLookupRejects(l)) =>
                LET later == LaterListed(l) IN
                IF later = {} THEN loops'[l].pc \in {"idle", "scheduled"}
                ELSE /\ loops'[l].pc \in {"awaitDetails", "awaitReject"}
                     /\ loops'[l].idx = CHOOSE j \in later : \A k \in later : j <= k
                     /\ loops'[l].arr = loops[l].arr]_vars

\* the first alert ever created is on a ticker getMarketDetails does not know
\* and is still active, and the run that failed on it is now evaluating the
\* second alert
C13_Witness ==
    \E t \in TickIds :
        /\ ticks[t].pc = "awaitDetails"
        /\ AlertAt(t).id = 2
        /\ \E u \in 1..Len(marketAlerts) :
              /\ marketAlerts[u].alerts[1].id = 1
              /\ marketAlerts[u].alerts[1].active
              /\ ~LookupFinds(marketAlerts[u].alerts[1].ticker)
              /\ (u < ticks[t].u \/ (u = ticks[t].u /\ 1 < ticks[t].a))

\* a run of monitorPriceAlerts is past a first alert whose ticker
\* getMarketDetails does not know, and is evaluating the second
LoopPastFailure ==
    \E l \in LoopIds :
        /\ loops[l].pc = "awaitDetails"
        /\ loops[l].idx = 2
        /\ FindMarket(loops[l].marketData, loops[l].arr[1].ticker) # NoMarket
        /\ ~LookupFinds(loops[l].arr[1].ticker)

\* the price alert with this id is in this.priceAlerts
InPriceAlerts(alerts, i) == \E j \in 1..Len(alerts) : alerts[j].id = i

\* C14: when the sendMessage of a triggered alert rejects, the alert is retired
\* all the same: it is inactive in marketAlerts (checkMarketAlerts), it is no
\* longer in this.priceAlerts (monitorPriceAlerts), so that no later run
\* notifies for it again.
C14_FailedSendNotRetried ==
    [][/\ \A t \in TickIds :
             TickSendRejects(t) =>
                ~marketAlerts'[ticks[t].u].alerts[ticks[t].a].active
       /\ \A l \in LoopIds :
             LoopSendRejects(l) =>
                ~InPriceAlerts(priceAlerts', loops[l].arr[loops[l].idx].id)]_vars

\* a run of monitorPriceAlerts has sent the notification of the price alert
\* with this id and is waiting for sendMessage to settle
Notifying(i) ==
    \E l \in LoopIds :
        loops[l].pc = "awaitSend" /\ loops[l].arr[loops[l].idx].id = i

\* a run of checkMarketAlerts is at the alert with this id, waiting for its
\* market data
Checking(i) ==
    \E t \in TickIds : ticks[t].pc = "awaitDetails" /\ AlertAt(t).id = i

\* C15: no alert is lost and a run retires only the alert that triggered.  An
\* alert leaves this.priceAlerts only in a step of the run that has just
\* notified for that very alert; an alert of marketAlerts never leaves the Map
\* and becomes inactive only in a step of a run that was checking that very
\* alert; every other alert stays as it was.
C15_OnlyTriggeredAlertRetired ==
    [][/\ \A i \in PriceAlertIds :
             (InPriceAlerts(priceAlerts, i) /\ ~InPriceAlerts(priceAlerts', i))
                => Notifying(i)
       /\ \A i \in AlertIds :
             /\ InRegistry(i) => InRegistry(i)'
             /\ (ActiveInRegistry(i) /\ ~ActiveInRegistry(i)') => Checking(i)]_vars

(***************************************************************************)
(* Claims about the steps of placeOrder.                                    *)
(***************************************************************************)
\* placeOrder has called broadcaster.broadcast
Broadcast == order.broadcasts > 0

\* C16: broadcaster.broadcast is called only when getMarketDetails has returned
\* the details of the order's market, the worst price has been computed from
\* them and rounded, and the price and the quantity of the message have been
\* converted from that worst price and from the order's quantity; and it is
\* not called when getMarketDetails or the building of the message failed.
C16_BroadcastAfterEarlierSteps ==
    /\ Broadcast =>
          /\ order.market = FindMarket(spotMarkets, order.ticker)
          /\ order.market # NoMarket
          /\ order.marketDetails.marketId = order.market.marketId
          /\ order.marketDetails.price = order.price
          /\ order.buffered = BufferedPrice(order.buyOrSell, order.marketDetails)
          /\ order.worstPrice =
                 RoundToTick(order.buffered, order.marketDetails.minPriceTickSize)
          /\ order.chainPrice =
                 SpotPriceToChain(order.worstPrice, BaseDecimals, QuoteDecimals)
          /\ order.chainQuantity =
                 SpotQuantityToChain(order.quantity, BaseDecimals)
    /\ order.error \in {"MarketNotFound", "UpstreamUnavailable", "BuildFailed"}
          => ~Broadcast

\* a sell of INJ/USDT has been broadcast, priced off a best bid of 50
C16_Witness ==
    /\ order.pc = "done"
    /\ Broadcast
    /\ IsSell
    /\ order.marketDetails.bestBidPrice = 50
    /\ order.worstPrice > 0
    /\ order.chainPrice.m = order.worstPrice

\* placeOrder has rejected with this error and returned no transaction hash
RejectedWith(o, error) ==
    o.pc = "rejected" /\ o.error = error /\ o.txHash = ""

\* C17: when the lookup of the market, a fetch of getMarketDetails, the building
\* of the message or the broadcast fails, placeOrder rejects with that very
\* error and returns no transaction hash; it resolves, with the hash, only
\* when nothing failed.
C17_FailuresPropagate ==
    /\ [](order.pc = "done" <=> order.txHash # "")
    /\ [](order.pc = "done" => order.error = "")
    /\ [][/\ (PlaceOrderCall /\ FindMarket(spotMarkets, order'.ticker) = NoMarket)
              => RejectedWith(order', "MarketNotFound")
          /\ OrderFetchRejects => RejectedWith(order', "UpstreamUnavailable")
          /\ OrderBuildThrows => RejectedWith(order', "BuildFailed")
          /\ BroadcastRejects => RejectedWith(order', "BroadcastFailed")]_vars

\* the broadcast of a priced order failed and placeOrder rejected with the
\* broadcaster's error
C17_Witness ==
    /\ RejectedWith(order, "BroadcastFailed")
    /\ order.broadcasts = 1
    /\ order.worstPrice > 0

\* C18: one call of placeOrder calls broadcaster.broadcast at most once, and a
\* broadcast that rejects ends the call without another broadcast.
C18_BroadcastAtMostOnce ==
    /\ [](order.broadcasts <= 1)
    /\ [][BroadcastRejects =>
             /\ order'.broadcasts = order.broadcasts
             /\ order'.pc = "rejected"]_vars
    /\ [][order.pc \in {"done", "rejected"} => order' = order]_vars

\* the one broadcast of a buy order failed and the call is over
C18_Witness ==
    /\ order.pc = "rejected"
    /\ order.error = "BroadcastFailed"
    /\ IsBuy
    /\ order.broadcasts = 1

\* the market of the order has a price tick or a quantity tick that is zero or
\* negative
HasBadTick ==
    /\ order.market # NoMarket
    /\ (order.market.minPriceTickSize <= 0 \/ order.market.minQuantityTickSize <= 0)

\* C19: an order on a market whose price or quantity tick size is zero or
\* negative is never broadcast: once the details of its market are there the
\* call ends rejected.
C19_InvalidTickNeverBroadcast ==
    HasBadTick =>
        /\ ~Broadcast
        /\ order.pc \notin {"awaitBroadcast", "done"}

(***************************************************************************)
(* Claims about the values sent to the chain.                               *)
(***************************************************************************)
\* the price of the message divided back by 10^(quoteDecimals - baseDecimals)
SentPrice == FromChain(order.chainPrice, QuoteDecimals - BaseDecimals)

\* the quantity of the message divided back by 10^baseDecimals
SentQuantity == FromChain(order.chainQuantity, BaseDecimals)

\* the price sent is a multiple of the price tick less than one tick away from
\* the buffered price
PriceTickAligned ==
    LET tick == order.marketDetails.minPriceTickSize IN
    /\ SentPrice % tick = 0
    /\ SentPrice * 100 - order.buffered < 100 * tick
    /\ order.buffered - SentPrice * 100 < 100 * tick

\* the quantity sent is a multiple of the quantity tick less than one tick away
\* from the quantity of the order
QuantityTickAligned ==
    LET tick == order.marketDetails.minQuantityTickSize IN
    /\ SentQuantity % tick = 0
    /\ SentQuantity - order.quantity < tick
    /\ order.quantity - SentQuantity < tick

\* C20: with positive tick sizes, the price and the quantity of the message,
\* divided back by their scaling factors, are multiples of the price tick and
\* of the quantity tick, each less than one tick away from the value it was
\* made from.
C20_SentValuesTickAligned == Priced => (PriceTickAligned /\ QuantityTickAligned)

(***************************************************************************)
(* Claims about getMarketDetails.                                           *)
(***************************************************************************)
\* getMarketDetails is waiting for fetchMarketSummary or fetchOrderbookV2
Fetching(o) == o.pc \in {"awaitSummary", "awaitOrderbook"}

\* C21: getMarketDetails issues a fetch only for a ticker its market list has,
\* and throws "market not found" at once for any other; for a ticker of the
\* list it throws, and returns no details, when fetchMarketSummary or
\* fetchOrderbookV2 rejects.
C21_LookupBeforeFetch ==
    /\ [](Fetching(order) => FindMarket(spotMarkets, order.ticker) # NoMarket)
    /\ [][PlaceOrderCall =>
             IF FindMarket(spotMarkets, order'.ticker) = NoMarket
             THEN RejectedWith(order', "MarketNotFound")
             ELSE order'.pc = "awaitSummary"]_vars
    /\ [][OrderFetchRejects =>
             /\ Fetching(order)
             /\ RejectedWith(order', "UpstreamUnavailable")
             /\ order'.marketDetails = NoDetails]_vars

\* getMarketDetails has thrown for the ticker X/Y, which the list does not
\* have, without having fetched anything
C21_Witness ==
    /\ RejectedWith(order, "MarketNotFound")
    /\ order.ticker = "X/Y"
    /\ FindMarket(spotMarkets, "X/Y") = NoMarket
    /\ order.price = 0
    /\ order.marketDetails = NoDetails

\* C22: the average price of a side is absent exactly when the side has no
\* levels; otherwise it is a function of the first five levels alone and lies
\* between the lowest and the highest price of those levels, bounds included.
C22_AverageWithinTopLevels ==
    average.done =>
        LET top == Slice(levels, maxOrdersToConsider) IN
        /\ (average.value = Null) <=> (Len(levels) = 0)
        /\ average.value = AverageOfLevels(top)
        /\ average.value # Null =>
              /\ \E i \in 1..Len(top) : top[i].price <= average.value
              /\ \E i \in 1..Len(top) : average.value <= top[i].price

(***************************************************************************)
(* Claims about the order confirmation.                                     *)
(***************************************************************************)
\* C23: the Confirm button of one order summary leads to at most one call of
\* placeOrder, however many times its callback is delivered.
C23_OnePlaceOrderPerIntent ==
    \A i, j \in 1..Len(placed) :
        placed[i].keyboard = placed[j].keyboard => i = j

\* C24: the worst price of an order that is broadcast is a positive number:
\* not zero, not negative, not NaN.
C24_BroadcastPricePositive == Broadcast => order.worstPrice > 0

\* C25: when the decryption of the selected wallet's key fails,
\* handleOrderConfirmation cancels the order: it does not call placeOrder.
C25_NoOrderWithoutKey ==
    \A i \in 1..Len(placed) : placed[i].deciphered

\* C26: the wallet whose key and address handleOrderConfirmation passes to
\* placeOrder is the wallet the order summary showed as selected.
C26_SignerIsSelectedWallet ==
    \A i \in 1..Len(placed) :
        placed[i].address = keyboards[placed[i].keyboard].address

(***************************************************************************)
(* Claims about the wallet list.                                            *)
(***************************************************************************)
\* C27: the wallet a delivery of the final delete callback removes is the
\* wallet the confirmation step of that button showed, also when the callback
\* is delivered again or after another deletion.
C27_RemovedIsShownWallet ==
    \A i \in 1..Len(removed) :
        removed[i].address = keyboards[removed[i].keyboard].address

\* C28: the default wallet setting is empty or is the address of a wallet of
\* the list, after every creation, import, choice of a default and deletion.
C28_DefaultWalletListed ==
    \/ userSettings.defaultWallet = ""
    \/ \E i \in 1..Len(userSettings.wallets) :
          userSettings.wallets[i].address = userSettings.defaultWallet

\* a wallet that was not the default was deleted and the default wallet, which
\* was chosen and is not the first one created, is the one left
C28_Witness ==
    /\ Len(removed) = 1
    /\ Len(userSettings.wallets) = 1
    /\ userSettings.defaultWallet = userSettings.wallets[1].address
    /\ removed[1].address # userSettings.defaultWallet
    /\ keyboards[removed[1].keyboard].walletIndex = 0

\* C29: no two wallets of the list have the same name, after every creation,
\* import, renaming and deletion.
C29_WalletNamesDistinct ==
    \A i, j \in 1..Len(userSettings.wallets) :
        userSettings.wallets[i].name = userSettings.wallets[j].name => i = j

(***************************************************************************)
(* Claims about the monitoring flag of MarketMonitor.                       *)
(***************************************************************************)
\* C30: whatever the order of setBot, addPriceAlert, startMonitoring,
\* stopMonitoring and the firings of the timeouts, at most one chain of
\* monitorPriceAlerts runs is running or scheduled, and the monitoring flag is
\* true exactly when there is one.
C30_FlagMatchesLoop ==
    LET active == {l \in LoopIds : loops[l].pc # "idle"} IN
    /\ Cardinality(active) <= 1
    /\ monitoring <=> (Cardinality(active) = 1)

====
